---------------------------- MODULE Spec2Model ----------------------------
(***************************************************************************)
(* A model of the EdgeGrid request-signing library: credential loading     *)
(* (config.rs), client construction and request sending (client.rs) and    *)
(* the signing engine (auth.rs).                                           *)
(*                                                                         *)
(* Text is modelled as a sequence of one-character strings, so that trim,  *)
(* starts_with, find, slicing, case conversion and concatenation are       *)
(* computed as the code computes them.  The results of the external        *)
(* cryptographic crates (sha2, hmac, base64) and of Uuid::new_v4 are       *)
(* modelled as bracketed terms over their inputs: a multi-character        *)
(* element such as "sha256(" opens a term that no program text contains.   *)
(***************************************************************************)
EXTENDS Naturals, Integers, Sequences, FiniteSets, TLC

-----------------------------------------------------------------------------
(* Text primitives (Rust str / String methods)                             *)

\* char::is_whitespace, restricted to the characters of the model
IsWhitespace(c) == c \in {" ", "\t", "\n", "\r"}

\* ASCII control characters of the model (below 0x20)
IsControl(c) == c \in {"\t", "\n", "\r"}

StartsWith(s, p) == Len(s) >= Len(p) /\ SubSeq(s, 1, Len(p)) = p

EndsWith(s, p) == Len(s) >= Len(p) /\ SubSeq(s, Len(s) - Len(p) + 1, Len(s)) = p

\* s[n..]: the text after its first n characters
Skip(s, n) == SubSeq(s, n + 1, Len(s))

\* s[..n]: the first n characters
Take(s, n) == SubSeq(s, 1, n)

RECURSIVE TrimStart(_)
TrimStart(s) ==
    IF s # <<>> /\ IsWhitespace(Head(s)) THEN TrimStart(Tail(s)) ELSE s

RECURSIVE TrimEnd(_)
TrimEnd(s) ==
    IF s # <<>> /\ IsWhitespace(s[Len(s)]) THEN TrimEnd(Take(s, Len(s) - 1)) ELSE s

\* str::trim
Trim(s) == TrimEnd(TrimStart(s))

\* str::find(char): the 1-based index of the first occurrence, 0 when absent
Find(s, c) ==
    IF \E i \in 1..Len(s) : s[i] = c
    THEN CHOOSE i \in 1..Len(s) : s[i] = c /\ \A j \in 1..(i - 1) : s[j] # c
    ELSE 0

Letters ==
    << <<"a","A">>, <<"b","B">>, <<"c","C">>, <<"d","D">>, <<"e","E">>,
       <<"f","F">>, <<"g","G">>, <<"h","H">>, <<"i","I">>, <<"j","J">>,
       <<"k","K">>, <<"l","L">>, <<"m","M">>, <<"n","N">>, <<"o","O">>,
       <<"p","P">>, <<"q","Q">>, <<"r","R">>, <<"s","S">>, <<"t","T">>,
       <<"u","U">>, <<"v","V">>, <<"w","W">>, <<"x","X">>, <<"y","Y">>,
       <<"z","Z">> >>

LowerChar(c) ==
    IF \E i \in 1..Len(Letters) : Letters[i][2] = c
    THEN Letters[CHOOSE i \in 1..Len(Letters) : Letters[i][2] = c][1]
    ELSE c

UpperChar(c) ==
    IF \E i \in 1..Len(Letters) : Letters[i][1] = c
    THEN Letters[CHOOSE i \in 1..Len(Letters) : Letters[i][1] = c][2]
    ELSE c

\* str::to_lowercase
ToLowercase(s) == [i \in 1..Len(s) |-> LowerChar(s[i])]

\* str::to_uppercase
ToUppercase(s) == [i \in 1..Len(s) |-> UpperChar(s[i])]

\* The order of characters (their code points), for the characters of the model
CharOrder ==
    <<"\t", "\n", "\r", " ", "\"", "#", "'", "-", "/", "0", "1", "2", "3", "4",
      "5", "6", "7", "8", "9", ":", ";", "=", "?",
      "A", "B", "C", "D", "E", "F", "G", "H", "I", "J", "K", "L", "M", "N", "O",
      "P", "Q", "R", "S", "T", "U", "V", "W", "X", "Y", "Z", "[", "]", "_",
      "a", "b", "c", "d", "e", "f", "g", "h", "i", "j", "k", "l", "m", "n", "o",
      "p", "q", "r", "s", "t", "u", "v", "w", "x", "y", "z">>

CharCode(c) == CHOOSE i \in 1..Len(CharOrder) : CharOrder[i] = c

\* String's Ord: lexicographic by character
RECURSIVE StrLess(_, _)
StrLess(a, b) ==
    IF b = <<>> THEN FALSE
    ELSE IF a = <<>> THEN TRUE
    ELSE IF Head(a) = Head(b) THEN StrLess(Tail(a), Tail(b))
    ELSE CharCode(Head(a)) < CharCode(Head(b))

\* Result<T, EdgeGridError>
Ok(v) == [ok |-> TRUE, val |-> v]

Err(kind, arg) == [ok |-> FALSE, err |-> kind, arg |-> arg]

-----------------------------------------------------------------------------
(* config.rs                                                               *)

MAX_BODY == 131072

\* Option<String>
NoneText == [some |-> FALSE, text |-> <<>>]

SomeText(t) == [some |-> TRUE, text |-> t]

\* The names of the four identity fields, and of max_body, as a file writes them
ClientTokenKey == <<"c","l","i","e","n","t","_","t","o","k","e","n">>

ClientSecretKey == <<"c","l","i","e","n","t","_","s","e","c","r","e","t">>

AccessTokenKey == <<"a","c","c","e","s","s","_","t","o","k","e","n">>

HostKey == <<"h","o","s","t">>

MaxBodyKey == <<"m","a","x","_","b","o","d","y">>

AccountSwitchKey == <<"a","c","c","o","u","n","t","_","s","w","i","t","c","h","_","k","e","y">>

HttpsPrefix == <<"h","t","t","p","s",":","/","/">>

\* EdgeGridConfig::new
EdgeGridConfig_new(client_token, client_secret, access_token, host) ==
    [ client_token  |-> client_token,
      client_secret |-> client_secret,
      access_token  |-> access_token,
      host          |-> IF StartsWith(host, HttpsPrefix) THEN host
                        ELSE HttpsPrefix \o host,
      max_body      |-> MAX_BODY,
      debug         |-> FALSE,
      account_switch_key |-> NoneText ]


\* validate_config
validate_config(config) ==
    IF Trim(config.client_token) = <<>> THEN Err("MissingCredential", ClientTokenKey)
    ELSE IF Trim(config.client_secret) = <<>> THEN Err("MissingCredential", ClientSecretKey)
    ELSE IF Trim(config.access_token) = <<>> THEN Err("MissingCredential", AccessTokenKey)
    ELSE IF Trim(config.host) = <<>> THEN Err("MissingCredential", HostKey)
    ELSE
        LET prefixed == IF ~StartsWith(config.host, HttpsPrefix)
                        THEN HttpsPrefix \o config.host
                        ELSE config.host
            host == IF EndsWith(prefixed, <<"/">>)
                    THEN Take(prefixed, Len(prefixed) - 1)
                    ELSE prefixed
        IN  Ok([config EXCEPT !.host = host])

\* A call that panicked, in the place of the Result it would have returned
Panicked == [ok |-> FALSE, err |-> "panic", arg |-> <<>>]

\* parse_value: the value, or the panic of the slice value[1..value.len()-1]
\* of a value that is one quote character
parse_value(value) ==
    LET v == Trim(value)
        quoted == \/ StartsWith(v, <<"\"">>) /\ EndsWith(v, <<"\"">>)
                  \/ StartsWith(v, <<"'">>) /\ EndsWith(v, <<"'">>)
    IN  IF quoted /\ Len(v) < 2 THEN Panicked
        ELSE
            LET inner == IF quoted THEN SubSeq(v, 2, Len(v) - 1) ELSE v
                comment_pos == Find(inner, ";")
            IN  IF comment_pos > 0 THEN Ok(Trim(Take(inner, comment_pos - 1)))
                ELSE Ok(inner)

IsDigit(c) == c \in {"0","1","2","3","4","5","6","7","8","9"}

DigitValue(c) == CHOOSE d \in 0..9 : <<"0","1","2","3","4","5","6","7","8","9">>[d + 1] = c

RECURSIVE DecimalValue(_)
DecimalValue(digits) ==
    IF digits = <<>> THEN 0
    ELSE 10 * DecimalValue(Take(digits, Len(digits) - 1)) + DigitValue(digits[Len(digits)])

\* str::parse::<usize>: decimal digits after an optional '+' (no overflow in
\* the model)
ParseUsize(text) ==
    LET digits == IF text # <<>> /\ Head(text) = "+" THEN Tail(text) ELSE text
    IN  IF digits # <<>> /\ \A i \in 1..Len(digits) : IsDigit(digits[i])
        THEN Ok(DecimalValue(digits))
        ELSE Err("ParseIntError", <<>>)

\* HashMap::get(key).cloned().unwrap_or_default()
GetOrDefault(values, key) == IF key \in DOMAIN values THEN values[key] ELSE <<>>

\* parse_section_config
parse_section_config(values) ==
    validate_config(
        [ client_token  |-> GetOrDefault(values, ClientTokenKey),
          client_secret |-> GetOrDefault(values, ClientSecretKey),
          access_token  |-> GetOrDefault(values, AccessTokenKey),
          host          |-> GetOrDefault(values, HostKey),
          max_body      |-> IF MaxBodyKey \in DOMAIN values
                               /\ ParseUsize(values[MaxBodyKey]).ok
                            THEN ParseUsize(values[MaxBodyKey]).val
                            ELSE MAX_BODY,
          debug         |-> FALSE,
          account_switch_key |-> IF AccountSwitchKey \in DOMAIN values
                                 THEN SomeText(values[AccountSwitchKey])
                                 ELSE NoneText ])

\* HashMap::insert
MapInsert(map, key, value) ==
    [k \in DOMAIN map \cup {key} |-> IF k = key THEN value ELSE map[k]]

NoMap == [k \in {} |-> <<>>]

\* The section that is open, saved when its values make a valid configuration
SaveSection(st) ==
    IF st.current_section.some /\ parse_section_config(st.current_config).ok
    THEN MapInsert(st.sections, st.current_section.text,
                   parse_section_config(st.current_config).val)
    ELSE st.sections

\* The loop body with the values of the section before kept at a header
ParseLine_kept(st, raw) ==
    LET line == Trim(raw) IN
    IF st.panicked THEN st
    ELSE IF line = <<>> \/ Head(line) = ";" \/ Head(line) = "#" THEN st
    ELSE IF Head(line) = "[" /\ line[Len(line)] = "]" THEN
        [st EXCEPT !.sections = SaveSection(st),
                   !.current_section = SomeText(SubSeq(line, 2, Len(line) - 1))]
    ELSE
        LET eq_pos == Find(line, "=") IN
        IF eq_pos = 0 THEN st
        ELSE
            LET key == Trim(Take(line, eq_pos - 1))
                value == parse_value(Trim(Skip(line, eq_pos)))
                name == IF key = <<"m","a","x","-","b","o","d","y">> THEN MaxBodyKey
                        ELSE key
            IN  IF value = Panicked THEN [st EXCEPT !.panicked = TRUE]
                ELSE [st EXCEPT !.current_config = MapInsert(@, name, value.val)]

\* One pass of the loop of parse_edgerc over a line
ParseLine(st, raw) ==
    LET line == Trim(raw) IN
    IF st.panicked THEN st
    ELSE IF line = <<>> \/ Head(line) = ";" \/ Head(line) = "#" THEN st
    ELSE IF Head(line) = "[" /\ line[Len(line)] = "]" THEN
        [st EXCEPT !.sections = SaveSection(st),
                   !.current_section = SomeText(SubSeq(line, 2, Len(line) - 1)),
                   !.current_config = NoMap]
    ELSE
        LET eq_pos == Find(line, "=") IN
        IF eq_pos = 0 THEN st
        ELSE
            LET key == Trim(Take(line, eq_pos - 1))
                value == parse_value(Trim(Skip(line, eq_pos)))
                name == IF key = <<"m","a","x","-","b","o","d","y">> THEN MaxBodyKey
                        ELSE key
            IN  IF value = Panicked THEN [st EXCEPT !.panicked = TRUE]
                ELSE [st EXCEPT !.current_config = MapInsert(@, name, value.val)]

RECURSIVE ParseLines(_, _)
ParseLines(st, lines) ==
    IF lines = <<>> THEN st ELSE ParseLines(ParseLine(st, Head(lines)), Tail(lines))

\* parse_edgerc, on the lines of the content
parse_edgerc(content) ==
    LET st == ParseLines([sections |-> NoMap, current_section |-> NoneText,
                          current_config |-> NoMap, panicked |-> FALSE], content)
        sections == SaveSection(st)
    IN  IF st.panicked THEN Panicked
        ELSE IF DOMAIN sections = {} THEN Err("Config", <<"No valid sections">>)
        ELSE Ok(sections)

\* env::var
EnvVar(environment, name) ==
    IF name \in DOMAIN environment.vars THEN Ok(environment.vars[name])
    ELSE Err("NotPresent", <<>>)

\* from_env
from_env(environment, section) ==
    LET prefix == IF section = <<"d","e","f","a","u","l","t">>
                  THEN <<"A","K","A","M","A","I","_">>
                  ELSE <<"A","K","A","M","A","I","_">> \o ToUppercase(section) \o <<"_">>
        host == EnvVar(environment, prefix \o <<"H","O","S","T">>)
        client_token == EnvVar(environment,
                            prefix \o <<"C","L","I","E","N","T","_","T","O","K","E","N">>)
        client_secret == EnvVar(environment,
                            prefix \o <<"C","L","I","E","N","T","_","S","E","C","R","E","T">>)
        access_token == EnvVar(environment,
                            prefix \o <<"A","C","C","E","S","S","_","T","O","K","E","N">>)
    IN  IF ~host.ok THEN Err("EnvError", prefix \o <<"H","O","S","T">>)
        ELSE IF ~client_token.ok
        THEN Err("EnvError", prefix \o <<"C","L","I","E","N","T","_","T","O","K","E","N">>)
        ELSE IF ~client_secret.ok
        THEN Err("EnvError", prefix \o <<"C","L","I","E","N","T","_","S","E","C","R","E","T">>)
        ELSE IF ~access_token.ok
        THEN Err("EnvError", prefix \o <<"A","C","C","E","S","S","_","T","O","K","E","N">>)
        ELSE Ok(EdgeGridConfig_new(client_token.val, client_secret.val,
                                   access_token.val, host.val))

\* resolve_home_path: a leading ~ component is replaced by the home directory
resolve_home_path(environment, path) ==
    IF path # <<>> /\ Head(path) = "~" /\ (Len(path) = 1 \/ path[2] = "/")
    THEN IF environment.home.some
         THEN Ok(environment.home.text \o Tail(path))
         ELSE Err("Config", <<"Cannot determine home directory">>)
    ELSE Ok(path)

\* fs::read_to_string: the lines of the file at the path
ReadToString(files, path) ==
    IF files # [nothing |-> TRUE] /\ files.path = path THEN Ok(files.lines)
    ELSE Err("Config", <<"Cannot read .edgerc file">>)

\* EdgeGridConfig::from_edgerc
from_edgerc(environment, files, path, section) ==
    LET resolved == resolve_home_path(environment, path) IN
    IF ~resolved.ok THEN resolved
    ELSE IF from_env(environment, section).ok THEN from_env(environment, section)
    ELSE
        LET content == ReadToString(files, resolved.val) IN
        IF ~content.ok THEN content
        ELSE
            LET edgerc == parse_edgerc(content.val) IN
            IF ~edgerc.ok THEN edgerc
            ELSE IF section \notin DOMAIN edgerc.val THEN Err("InvalidSection", section)
            ELSE validate_config(edgerc.val[section])

-----------------------------------------------------------------------------
(* url::Url, for https URLs over the characters of the model (no port, no  *)
(* userinfo, no fragment, no dot segments, no percent-encoding)            *)

\* The parser first drops leading and trailing C0 control characters and
\* spaces, then every tab and newline inside the input.
RECURSIVE RemoveTabNewline(_)
RemoveTabNewline(s) ==
    IF s = <<>> THEN <<>>
    ELSE IF Head(s) \in {"\t", "\n", "\r"} THEN RemoveTabNewline(Tail(s))
    ELSE <<Head(s)>> \o RemoveTabNewline(Tail(s))

UrlClean(s) == RemoveTabNewline(Trim(s))

RECURSIVE DropSlashes(_)
DropSlashes(s) ==
    IF s # <<>> /\ Head(s) = "/" THEN DropSlashes(Tail(s)) ELSE s

\* The index of the first character of s that is in cs, Len(s) + 1 when none is
FirstOf(s, cs) ==
    IF \E i \in 1..Len(s) : s[i] \in cs
    THEN CHOOSE i \in 1..Len(s) : s[i] \in cs /\ \A j \in 1..(i - 1) : s[j] \notin cs
    ELSE Len(s) + 1

NoQuery == [some |-> FALSE, text |-> <<>>]

SomeQuery(q) == [some |-> TRUE, text |-> q]

\* The path and the query of the text that follows the authority
PathAndQuery(s) ==
    LET q == FirstOf(s, {"?"})
        p == Take(s, q - 1)
    IN  [ path  |-> IF p = <<>> THEN <<"/">> ELSE p,
          query |-> IF q <= Len(s) THEN SomeQuery(Skip(s, q)) ELSE NoQuery ]

\* Url::parse
UrlParse(input) ==
    LET s == UrlClean(input) IN
    IF ~StartsWith(s, HttpsPrefix) THEN Err("UrlError", <<"RelativeUrlWithoutBase">>)
    ELSE
        LET rest == DropSlashes(Skip(s, Len(HttpsPrefix)))
            e    == FirstOf(rest, {"/", "?"})
            h    == Take(rest, e - 1)
            pq   == PathAndQuery(Skip(rest, e - 1))
        IN  IF h = <<>> THEN Err("UrlError", <<"EmptyHost">>)
            ELSE IF \E i \in 1..Len(h) : h[i] = " "
                 THEN Err("UrlError", <<"InvalidDomainCharacter">>)
            ELSE Ok([ scheme |-> <<"h","t","t","p","s">>,
                      host   |-> ToLowercase(h),
                      path   |-> pq.path,
                      query  |-> pq.query ])

\* Url's Display: the serialization of a parsed URL
UrlToString(u) ==
    u.scheme \o <<":","/","/">> \o u.host \o u.path
        \o (IF u.query.some THEN <<"?">> \o u.query.text ELSE <<>>)

\* The directory of a path: the path up to and with its last '/'
RECURSIVE PathDir(_)
PathDir(p) ==
    IF p = <<>> \/ p[Len(p)] = "/" THEN p ELSE PathDir(Take(p, Len(p) - 1))

\* Url::join
UrlJoin(base, reference) ==
    LET r == UrlClean(reference) IN
    IF StartsWith(r, HttpsPrefix) THEN UrlParse(r)
    ELSE IF StartsWith(r, <<"/","/">>) THEN UrlParse(<<"h","t","t","p","s",":">> \o r)
    ELSE IF r = <<>> THEN Ok(base)
    ELSE IF Head(r) = "/" THEN
        LET pq == PathAndQuery(r)
        IN  Ok([base EXCEPT !.path = pq.path, !.query = pq.query])
    ELSE IF Head(r) = "?" THEN Ok([base EXCEPT !.query = SomeQuery(Tail(r))])
    ELSE
        LET pq == PathAndQuery(r)
        IN  Ok([base EXCEPT !.path = PathDir(base.path) \o pq.path,
                            !.query = pq.query])

-----------------------------------------------------------------------------
(* client.rs: EdgeGridClient                                               *)

\* EdgeGridClient::new with the emptiness checks made on the untrimmed text
EdgeGridClient_new_untrimmed(config) ==
    IF config.client_token = <<>>
    THEN Err("MissingCredential", <<"c","l","i","e","n","t","_","t","o","k","e","n">>)
    ELSE IF config.client_secret = <<>>
    THEN Err("MissingCredential", <<"c","l","i","e","n","t","_","s","e","c","r","e","t">>)
    ELSE IF config.access_token = <<>>
    THEN Err("MissingCredential", <<"a","c","c","e","s","s","_","t","o","k","e","n">>)
    ELSE IF config.host = <<>>
    THEN Err("MissingCredential", <<"h","o","s","t">>)
    ELSE
        LET base_url == UrlParse(config.host)
        IN  IF ~base_url.ok THEN base_url
            ELSE Ok([auth |-> [config |-> config], base_url |-> base_url.val])

\* EdgeGridClient::new
EdgeGridClient_new(config) ==
    IF Trim(config.client_token) = <<>>
    THEN Err("MissingCredential", <<"c","l","i","e","n","t","_","t","o","k","e","n">>)
    ELSE IF Trim(config.client_secret) = <<>>
    THEN Err("MissingCredential", <<"c","l","i","e","n","t","_","s","e","c","r","e","t">>)
    ELSE IF Trim(config.access_token) = <<>>
    THEN Err("MissingCredential", <<"a","c","c","e","s","s","_","t","o","k","e","n">>)
    ELSE IF Trim(config.host) = <<>>
    THEN Err("MissingCredential", <<"h","o","s","t">>)
    ELSE
        LET base_url == UrlParse(config.host)
        IN  IF ~base_url.ok THEN base_url
            ELSE Ok([auth |-> [config |-> config], base_url |-> base_url.val])

\* EdgeGridClient::request: the URL of the request builder it returns
RequestUrl(client, path) ==
    LET joined == UrlJoin(client.base_url, path) IN
    IF joined.ok THEN joined.val
    ELSE
        LET parsed == UrlParse(UrlToString(client.base_url) \o path)
        IN  IF parsed.ok THEN parsed.val ELSE client.base_url

-----------------------------------------------------------------------------
(* The external crates the signing engine calls                            *)

\* Sha256::digest: the digest of a byte sequence, as a term over its input
Sha256(bytes) == <<"sha256(">> \o bytes \o <<"sha256)">>

\* Hmac<Sha256> keyed with key, updated with msg and finalized
HmacSha256(key, msg) ==
    <<"hmac(">> \o key \o <<"hmac|">> \o msg \o <<"hmac)">>

\* BASE64.encode
Base64Encode(bytes) == <<"base64(">> \o bytes \o <<"base64)">>

\* BASE64.decode: the bytes of a text BASE64.encode produced, an error otherwise
Base64Decode(text) ==
    IF Len(text) >= 2 /\ Head(text) = "base64(" /\ text[Len(text)] = "base64)"
    THEN Ok(SubSeq(text, 2, Len(text) - 1))
    ELSE Err("DecodeError", <<"InvalidByte">>)

DigitChars == <<"0","1","2","3","4","5","6","7","8","9">>

RECURSIVE Decimal(_)
Decimal(n) ==
    IF n < 10 THEN <<DigitChars[n + 1]>>
    ELSE Decimal(n \div 10) \o <<DigitChars[(n % 10) + 1]>>

\* Uuid::new_v4().to_string(): the n-th value the generator hands out; a
\* version 4 UUID is 122 random bits, taken here as never handed out twice
Uuid_new_v4(n) == <<"uuid(">> \o Decimal(n) \o <<"uuid)">>

\* A nonce generated once and kept for every call
NextNonce_kept(log) == Uuid_new_v4(1)

\* The nonce of a signing call, given the nonces generated before it
NextNonce(log) == Uuid_new_v4(Len(log) + 1)

\* str::parse::<HeaderValue>: fails on a control character other than tab
HeaderValueParse(text) ==
    IF \E i \in 1..Len(text) : IsControl(text[i]) /\ text[i] # "\t"
    THEN Err("InvalidHeaderValue", <<>>)
    ELSE Ok(text)

-----------------------------------------------------------------------------
(* auth.rs: EdgeGridAuth                                                   *)

POST == <<"P","O","S","T">>

Two(n) == <<DigitChars[(n \div 10) + 1], DigitChars[(n % 10) + 1]>>

\* create_timestamp: Utc::now() as %Y%m%dT%H:%M:%S+0000, at `now` seconds
\* (fewer than an hour) past 2014-03-21 19:00:00 UTC
create_timestamp(now) ==
    <<"2","0","1","4","0","3","2","1","T","1","9",":">>
        \o Two(now \div 60) \o <<":">> \o Two(now % 60)
        \o <<"+","0","0","0","0">>

\* get_headers_to_sign: the entries of the map it returns, in iteration order
get_headers_to_sign(request) == <<>>

\* calculate_content_hash without the truncation to max_body
calculate_content_hash_whole(config, request) ==
    IF request.method # POST THEN Ok(<<>>)
    ELSE IF request.body.kind = "bytes"
    THEN Ok(Base64Encode(Sha256(request.body.bytes)))
    ELSE Ok(<<>>)

\* calculate_content_hash without the test of the method
calculate_content_hash_any_method(config, request) ==
    IF request.body.kind = "bytes" THEN
        LET bytes == request.body.bytes
            bytes_to_hash == IF Len(bytes) > config.max_body
                             THEN Take(bytes, config.max_body)
                             ELSE bytes
        IN  Ok(Base64Encode(Sha256(bytes_to_hash)))
    ELSE Ok(<<>>)

\* calculate_content_hash
calculate_content_hash(config, request) ==
    IF request.method # POST THEN Ok(<<>>)
    ELSE IF request.body.kind = "bytes" THEN
        LET bytes == request.body.bytes
            bytes_to_hash == IF Len(bytes) > config.max_body
                             THEN Take(bytes, config.max_body)
                             ELSE bytes
        IN  Ok(Base64Encode(Sha256(bytes_to_hash)))
    ELSE Ok(<<>>)

\* slice::sort_by_key on the lower-cased name: a stable sort, so entries with
\* equal keys keep the order they had
RECURSIVE InsertByKey(_, _)
InsertByKey(sorted, e) ==
    IF sorted = <<>> THEN <<e>>
    ELSE IF StrLess(ToLowercase(e[1]), ToLowercase(Head(sorted)[1]))
         THEN <<e>> \o sorted
    ELSE <<Head(sorted)>> \o InsertByKey(Tail(sorted), e)

RECURSIVE SortByLowerKey(_)
SortByLowerKey(entries) ==
    IF entries = <<>> THEN <<>>
    ELSE InsertByKey(SortByLowerKey(Take(entries, Len(entries) - 1)),
                     entries[Len(entries)])

\* [String]::join
RECURSIVE Join(_, _)
Join(parts, sep) ==
    IF parts = <<>> THEN <<>>
    ELSE IF Len(parts) = 1 THEN Head(parts)
    ELSE Head(parts) \o sep \o Join(Tail(parts), sep)

\* canonicalize_headers; headers are the entries <<name, value>> of the map in
\* the order its iterator yields them
canonicalize_headers(headers) ==
    LET sorted_headers == SortByLowerKey(headers)
    IN  Join([i \in 1..Len(sorted_headers) |->
                ToLowercase(sorted_headers[i][1]) \o <<":">>
                    \o Trim(sorted_headers[i][2])],
             <<"\t">>)

\* build_data_to_sign
build_data_to_sign(config, method, scheme, host, path, headers_to_sign, content_hash, timestamp, nonce) ==
    LET canonicalized_headers == canonicalize_headers(headers_to_sign)
        auth_header ==
            <<"E","G","1","-","H","M","A","C","-","S","H","A","2","5","6"," ",
              "c","l","i","e","n","t","_","t","o","k","e","n","=">>
                \o config.client_token
                \o <<";","a","c","c","e","s","s","_","t","o","k","e","n","=">>
                \o config.access_token
                \o <<";","t","i","m","e","s","t","a","m","p","=">> \o timestamp
                \o <<";","n","o","n","c","e","=">> \o nonce \o <<";">>
    IN  ToUppercase(method) \o <<"\t">> \o scheme \o <<"\t">> \o host \o <<"\t">>
            \o path \o <<"\t">> \o canonicalized_headers \o <<"\t">>
            \o content_hash \o <<"\t">> \o auth_header

\* create_signing_key
create_signing_key(config, timestamp) ==
    Ok(Base64Encode(HmacSha256(config.client_secret, timestamp)))

\* sign_data
sign_data(data, signing_key) ==
    LET key_bytes == Base64Decode(signing_key)
    IN  IF ~key_bytes.ok THEN Err("AuthError", <<"base64">>)
        ELSE Ok(Base64Encode(HmacSha256(key_bytes.val, data)))

\* create_auth_header with access_token written before client_token
create_auth_header_swapped(config, method, url, path, headers_to_sign, content_hash, timestamp, nonce) ==
    LET data_to_sign == build_data_to_sign(config, method, url.scheme, url.host,
                            path, headers_to_sign, content_hash, timestamp, nonce)
        signing_key == create_signing_key(config, timestamp)
    IN  IF ~signing_key.ok THEN signing_key
        ELSE
            LET signature == sign_data(data_to_sign, signing_key.val)
            IN  IF ~signature.ok THEN signature
                ELSE Ok(<<"E","G","1","-","H","M","A","C","-","S","H","A","2",
                          "5","6"," ","a","c","c","e","s","s","_","t","o","k",
                          "e","n","=">>
                        \o config.access_token
                        \o <<";","c","l","i","e","n","t","_","t","o","k","e","n","=">>
                        \o config.client_token
                        \o <<";","t","i","m","e","s","t","a","m","p","=">>
                        \o timestamp
                        \o <<";","n","o","n","c","e","=">> \o nonce
                        \o <<";","s","i","g","n","a","t","u","r","e","=">>
                        \o signature.val)

\* create_auth_header
create_auth_header(config, method, url, path, headers_to_sign, content_hash, timestamp, nonce) ==
    LET data_to_sign == build_data_to_sign(config, method, url.scheme, url.host,
                            path, headers_to_sign, content_hash, timestamp, nonce)
        signing_key == create_signing_key(config, timestamp)
    IN  IF ~signing_key.ok THEN signing_key
        ELSE
            LET signature == sign_data(data_to_sign, signing_key.val)
            IN  IF ~signature.ok THEN signature
                ELSE Ok(<<"E","G","1","-","H","M","A","C","-","S","H","A","2",
                          "5","6"," ","c","l","i","e","n","t","_","t","o","k",
                          "e","n","=">>
                        \o config.client_token
                        \o <<";","a","c","c","e","s","s","_","t","o","k","e","n","=">>
                        \o config.access_token
                        \o <<";","t","i","m","e","s","t","a","m","p","=">>
                        \o timestamp
                        \o <<";","n","o","n","c","e","=">> \o nonce
                        \o <<";","s","i","g","n","a","t","u","r","e","=">>
                        \o signature.val)

AuthorizationName == <<"a","u","t","h","o","r","i","z","a","t","i","o","n">>

\* HeaderMap::insert: the values held under the name are replaced by one value
HeaderInsert(headers, name, value) ==
    [n \in DOMAIN headers \cup {name} |->
        IF n = name THEN <<value>> ELSE headers[n]]

\* The path and query of a URL as sign_request joins them
FullPath(url) ==
    LET query == IF url.query.some THEN url.query.text ELSE <<>>
    IN  IF query = <<>> THEN url.path ELSE url.path \o <<"?">> \o query

\* sign_request, with the timestamp and the nonce it generated: its result
\* and the request as the call leaves it
\* sign_request from line 67 on: the header is set when its value parsed
SetAuthorization(request, header_value) ==
    [ result  |-> Ok(<<>>),
      request |-> IF header_value.ok
                  THEN [request EXCEPT !.headers =
                           HeaderInsert(@, AuthorizationName, header_value.val)]
                  ELSE request ]

\* sign_request from line 57 on, the result of create_auth_header known
SignWithHeader(request, auth_header) ==
    IF ~auth_header.ok THEN [result |-> auth_header, request |-> request]
    ELSE SetAuthorization(request, HeaderValueParse(auth_header.val))

\* sign_request from line 54 on, the result of calculate_content_hash known
SignWithHash(config, request, timestamp, nonce, content_hash) ==
    IF ~content_hash.ok THEN [result |-> content_hash, request |-> request]
    ELSE SignWithHeader(request,
             create_auth_header(config, request.method, request.url,
                 FullPath(request.url), get_headers_to_sign(request),
                 content_hash.val, timestamp, nonce))

sign_request(config, request, timestamp, nonce) ==
    SignWithHash(config, request, timestamp, nonce,
                 calculate_content_hash(config, request))

\* The values sign_request computes on its way (lines 54 to 65), for the
\* properties that speak of the string-to-sign
SignTrace(config, request, timestamp, nonce) ==
    LET content_hash == calculate_content_hash(config, request)
        hash == IF content_hash.ok THEN content_hash.val ELSE <<>>
    IN  [ content_hash |-> content_hash,
          data_to_sign |-> build_data_to_sign(config, request.method,
                               request.url.scheme, request.url.host,
                               FullPath(request.url), get_headers_to_sign(request),
                               hash, timestamp, nonce),
          auth_header  |-> create_auth_header(config, request.method, request.url,
                               FullPath(request.url), get_headers_to_sign(request),
                               hash, timestamp, nonce) ]

-----------------------------------------------------------------------------
(* client.rs: EdgeGridRequestBuilder (the reqwest::RequestBuilder it wraps *)
(* keeps the first error of a header call until build)                     *)

NoBody == [kind |-> "none", bytes |-> <<>>]

BytesBody(b) == [kind |-> "bytes", bytes |-> b]

StreamBody == [kind |-> "stream", bytes |-> <<>>]

EmptyMap == [k \in {} |-> <<>>]

\* EdgeGridClient::request
EdgeGridClient_request(client, method, path) ==
    [ auth         |-> client.auth,
      method       |-> method,
      url          |-> RequestUrl(client, path),
      headers      |-> EmptyMap,
      body         |-> NoBody,
      error        |-> FALSE,
      query_params |-> EmptyMap ]

\* EdgeGridRequestBuilder::query
Builder_query(b, key, value) ==
    [b EXCEPT !.query_params =
        [k \in DOMAIN b.query_params \cup {key} |->
            IF k = key THEN value ELSE b.query_params[k]]]

\* HeaderName::from_bytes accepts token characters only
HeaderNameValid(name) ==
    name # <<>> /\ \A i \in 1..Len(name) : ~IsWhitespace(name[i])

\* EdgeGridRequestBuilder::header: RequestBuilder::header appends the value
\* under the lower-cased name, or records the error of a bad name or value
Builder_header(b, key, value) ==
    IF b.error THEN b
    ELSE IF ~HeaderNameValid(key) \/ ~HeaderValueParse(value).ok
    THEN [b EXCEPT !.error = TRUE]
    ELSE LET name == ToLowercase(key)
         IN  [b EXCEPT !.headers =
                [n \in DOMAIN b.headers \cup {name} |->
                    IF n = name
                    THEN (IF name \in DOMAIN b.headers THEN b.headers[name] ELSE <<>>)
                             \o <<value>>
                    ELSE b.headers[n]]]

\* EdgeGridRequestBuilder::body
Builder_body(b, body) == IF b.error THEN b ELSE [b EXCEPT !.body = body]

\* RequestBuilder::query with one pair: the pair is appended to the URL's query
AppendQuery(url, key, value) ==
    LET pair == key \o <<"=">> \o value
    IN  [url EXCEPT !.query =
            IF url.query.some /\ url.query.text # <<>>
            THEN SomeQuery(url.query.text \o <<"&">> \o pair)
            ELSE SomeQuery(pair)]

\* The loop of send over query_params, visited in the order `keys`
RECURSIVE AddQueryParams(_, _, _)
AddQueryParams(url, params, keys) ==
    IF keys = <<>> THEN url
    ELSE AddQueryParams(AppendQuery(url, Head(keys), params[Head(keys)]),
                        params, Tail(keys))

\* RequestBuilder::build
Builder_build(b, keys) ==
    IF b.error THEN Err("HttpError", <<"builder">>)
    ELSE Ok([ method  |-> b.method,
              url     |-> AddQueryParams(b.url, b.query_params, keys),
              headers |-> b.headers,
              body    |-> b.body ])

\* The orders in which a HashMap with the keys ks may be iterated
Orders(ks) ==
    {o \in [1..Cardinality(ks) -> ks] : \A i, j \in DOMAIN o : i # j => o[i] # o[j]}

\* send from line 171 on, the outcome of its sign_request call known
SendSigned(before, signed, transport) ==
    IF ~signed.result.ok
    THEN [ result |-> signed.result, signs |-> 1, built |-> TRUE,
           signed |-> signed.result,
           before |-> before, after |-> signed.request, sent |-> FALSE ]
    ELSE [ result |-> IF transport = "response" THEN Ok(<<"response">>)
                      ELSE Err("HttpError", <<"transport">>),
           signs  |-> 1, built |-> TRUE, signed |-> signed.result,
           before |-> before, after |-> signed.request,
           sent   |-> TRUE, wire |-> signed.request ]

\* send from line 163 on, the outcome of builder.build() known
SendBuilt(config, built, timestamp, nonce, transport) ==
    IF ~built.ok
    THEN [ result |-> built, signs |-> 0, built |-> FALSE, sent |-> FALSE ]
    ELSE SendSigned(built.val, sign_request(config, built.val, timestamp, nonce),
                    transport)

\* send with the signing call made before the query parameters are added:
\* the request without them is signed, the request with them is transmitted
Builder_send_sign_first(b, keys, timestamp, nonce, transport) ==
    LET unqueried == SendBuilt(b.auth.config, Builder_build(b, <<>>), timestamp,
                               nonce, transport)
    IN  IF unqueried.sent
        THEN [unqueried EXCEPT
                 !.wire.url = AddQueryParams(@, b.query_params, keys)]
        ELSE unqueried

\* EdgeGridRequestBuilder::send, for the iteration order `keys` of the query
\* parameters, the timestamp and nonce of its signing call and the outcome
\* `transport` of Client::execute.  Beside the result it returns: whether the
\* request was built, the number of sign_request calls made and what that call
\* returned, the request before and after signing, whether it was handed to
\* the transport and as what
Builder_send(b, keys, timestamp, nonce, transport) ==
    SendBuilt(b.auth.config, Builder_build(b, keys), timestamp, nonce, transport)

-----------------------------------------------------------------------------
(* The state of a program that uses the library                            *)

VARIABLES
    client,     \* the outcome of EdgeGridClient::new and the arguments given
    builder,    \* the EdgeGridRequestBuilder under construction, or Nothing
    request,    \* a reqwest::Request the caller holds and signs itself, or Nothing
    last,       \* the outcome of the last send or sign_request
    now,        \* the clock, in seconds
    issued,     \* the nonces generated so far, in order
    env,        \* the process environment
    file,       \* the credentials file
    loaded,     \* the outcome of the last EdgeGridConfig::from_edgerc
    hmap,       \* a header map: its entries
    hout,       \* the outcome of the last canonicalize_headers
    vtext,      \* the text after `key =` of a line, as typed so far
    vout,       \* the outcome of the last parse_value
    content,    \* the text given to parse_edgerc
    sections,   \* the outcome of the last parse_edgerc
    tasks       \* the concurrent tasks that use one client: where each is

signVars == <<client, builder, request, last, now, issued>>

configVars == <<env, file, loaded>>

headerVars == <<hmap, hout>>

parseVars == <<vtext, vout, content, sections>>

taskVars == <<tasks>>

vars == <<client, builder, request, last, now, issued, env, file, loaded, hmap, hout, vtext, vout, content, sections, tasks>>

Nothing == [nothing |-> TRUE]

-----------------------------------------------------------------------------
(* Bounds and inputs                                                       *)

\* The longest request body, in bytes
MaxBodyLen == 2

\* A max_body a caller sets in place of MAX_BODY, small enough to truncate
SmallMaxBody == 1

\* The number of signing calls of a run
MaxCalls == 2

\* The last second of the clock
MaxClock == 1

Bytes == {"a", "b"}

RECURSIVE SeqsUpTo(_, _)
SeqsUpTo(S, n) ==
    IF n = 0 THEN {<<>>}
    ELSE LET shorter == SeqsUpTo(S, n - 1)
         IN  shorter \cup {Append(q, x) : q \in {r \in shorter : Len(r) = n - 1}, x \in S}

\* The byte sequences of up to MaxBodyLen bytes
ByteSeqs == SeqsUpTo(Bytes, MaxBodyLen)

\* The bodies a caller attaches: none, a stream, and in-memory bodies of
\* every length up to MaxBodyLen
Bodies ==
    {NoBody, StreamBody}
        \cup {BytesBody([i \in 1..n |-> IF i % 2 = 1 THEN "a" ELSE "b"]) : n \in 0..MaxBodyLen}

Methods == {<<"G","E","T">>, POST, <<"P","U","T">>}

Paths == {<<"/","p">>, <<"/","p","?","a","=","1">>}

QueryKeys == {<<"k">>, <<"j">>}

QueryValues == {<<"1">>}

\* Headers a caller sets: an Authorization header of its own, and a name
\* that is no header name
CallerHeaders ==
    { << <<"A","u","t","h","o","r","i","z","a","t","i","o","n">>, <<"o","l","d">> >>,
      << <<"x"," ","a">>, <<"v">> >> }

Creds(ct, cs, at, host, mb) ==
    [client_token |-> ct, client_secret |-> cs, access_token |-> at,
     host |-> host, max_body |-> mb]

\* Values of one credential: empty, blank, with a leading blank, with a
\* control character inside
Deviations(v) == {<<>>, <<" ">>, <<" ">> \o v, <<Head(v), "\n">> \o Tail(v)}

\* Empty and blank
Blanks == {<<>>, <<" ">>}

\* The arguments of EdgeGridConfig::new and the max_body the caller sets on
\* the configuration before EdgeGridClient::new
ClientInputs ==
    LET ct == <<"c","t">>
        cs == <<"c","s">>
        at == <<"a","t">>
        h  == <<"h">>
    IN  {Creds(ct, cs, at, h, mb) : mb \in {MAX_BODY, SmallMaxBody}}
        \cup {Creds(x, cs, at, h, MAX_BODY) : x \in Deviations(ct)}
        \cup {Creds(ct, x, at, h, MAX_BODY) : x \in Blanks}
        \cup {Creds(ct, cs, x, h, MAX_BODY) : x \in Blanks}
        \cup {Creds(ct, cs, at, x, MAX_BODY) :
                x \in Blanks \cup {<<" ","h">>, <<"h"," ">>, HttpsPrefix \o h}}

-----------------------------------------------------------------------------
(* Signing: the operations of a caller                                     *)

NoLast == [op |-> "none"]

\* let client = EdgeGridClient::new(config)
ClientNew(input) ==
    /\ client.state = "none"
    /\ LET config == [EdgeGridConfig_new(input.client_token, input.client_secret,
                          input.access_token, input.host)
                        EXCEPT !.max_body = input.max_body]
           made == EdgeGridClient_new(config)
       IN  client' = [state |-> IF made.ok THEN "ok" ELSE "err",
                      args |-> input, result |-> made]
    /\ UNCHANGED <<builder, request, last, now, issued>>

\* client.request(method, path), also behind get, post, put, delete, patch
Request(method, path) ==
    /\ client.state = "ok"
    /\ builder = Nothing
    /\ request = Nothing
    /\ Len(issued) < MaxCalls
    /\ builder' = EdgeGridClient_request(client.result.val, method, path)
    /\ last' = NoLast
    /\ UNCHANGED <<client, request, now, issued>>

\* builder.query(key, value)
Query(key, value) ==
    /\ builder # Nothing
    /\ builder' = Builder_query(builder, key, value)
    /\ builder' # builder
    /\ UNCHANGED <<client, request, last, now, issued>>

\* builder.header(key, value)
Header(key, value) ==
    /\ builder # Nothing
    /\ ToLowercase(key) \notin DOMAIN builder.headers
    /\ builder' = Builder_header(builder, key, value)
    /\ builder' # builder
    /\ UNCHANGED <<client, request, last, now, issued>>

\* builder.body(body)
Body(body) ==
    /\ builder # Nothing
    /\ builder' = Builder_body(builder, body)
    /\ builder' # builder
    /\ UNCHANGED <<client, request, last, now, issued>>

\* builder.send().await
Send ==
    /\ builder # Nothing
    /\ Len(issued) < MaxCalls
    /\ \E keys \in Orders(DOMAIN builder.query_params),
          transport \in {"response", "error"} :
          \E timestamp \in {create_timestamp(now)}, nonce \in {NextNonce(issued)} :
          \E sent \in {Builder_send(builder, keys, timestamp, nonce, transport)} :
              /\ last' = [ op |-> "send", call |-> sent, timestamp |-> timestamp,
                           nonce |-> nonce,
                           trace |-> IF sent.built
                                     THEN SignTrace(builder.auth.config, sent.before,
                                                    timestamp, nonce)
                                     ELSE Nothing ]
              /\ issued' = IF sent.signs = 1 THEN Append(issued, nonce) ELSE issued
    /\ builder' = Nothing
    /\ UNCHANGED <<client, request, now>>

\* The caller builds a reqwest::Request of its own for the client's host
NewRequest(method, path, body) ==
    /\ client.state = "ok"
    /\ builder = Nothing
    /\ request = Nothing
    /\ Len(issued) < MaxCalls
    /\ request' = [ method  |-> method,
                    url     |-> RequestUrl(client.result.val, path),
                    headers |-> EmptyMap,
                    body    |-> body ]
    /\ last' = NoLast
    /\ UNCHANGED <<client, builder, now, issued>>

\* auth.sign_request(&mut request) on the caller's request
SignRequest ==
    /\ request # Nothing
    /\ Len(issued) < MaxCalls
    /\ \E timestamp \in {create_timestamp(now)}, nonce \in {NextNonce(issued)},
          config \in {client.result.val.auth.config} :
       \E signed \in {sign_request(config, request, timestamp, nonce)} :
           /\ request' = signed.request
           /\ last' = [ op |-> "sign",
                        call |-> [ result |-> signed.result, signs |-> 1,
                                   built |-> TRUE, signed |-> signed.result,
                                   before |-> request,
                                   after |-> signed.request, sent |-> FALSE ],
                        timestamp |-> timestamp, nonce |-> nonce,
                        trace |-> SignTrace(config, request, timestamp, nonce) ]
           /\ issued' = Append(issued, nonce)
    /\ UNCHANGED <<client, builder, now>>

\* A second passes; the clock starts with the first signing call
Tick ==
    /\ now < MaxClock
    /\ issued # <<>>
    /\ builder = Nothing
    /\ now' = now + 1
    /\ UNCHANGED <<client, builder, request, last, issued>>

InitSign ==
    /\ client = [state |-> "none"]
    /\ builder = Nothing
    /\ request = Nothing
    /\ last = NoLast
    /\ now = 0
    /\ issued = <<>>

IdleConfig ==
    /\ env = Nothing
    /\ file = Nothing
    /\ loaded = Nothing

IdleHeaders ==
    /\ hmap = NoMap
    /\ hout = Nothing

IdleParse ==
    /\ vtext = <<>>
    /\ vout = Nothing
    /\ content = Nothing
    /\ sections = Nothing
    /\ tasks = <<>>

Init == InitSign /\ IdleConfig /\ IdleHeaders /\ IdleParse

Next ==
    \/ \E input \in ClientInputs : ClientNew(input) /\ UNCHANGED <<configVars, headerVars, parseVars, taskVars>>
    \/ \E m \in Methods, p \in Paths : Request(m, p) /\ UNCHANGED <<configVars, headerVars, parseVars, taskVars>>
    \/ \E k \in QueryKeys, v \in QueryValues : Query(k, v) /\ UNCHANGED <<configVars, headerVars, parseVars, taskVars>>
    \/ \E h \in CallerHeaders : Header(h[1], h[2]) /\ UNCHANGED <<configVars, headerVars, parseVars, taskVars>>
    \/ \E b \in Bodies : Body(b) /\ UNCHANGED <<configVars, headerVars, parseVars, taskVars>>
    \/ Send /\ UNCHANGED <<configVars, headerVars, parseVars, taskVars>>
    \/ \E m \in Methods, b \in Bodies :
          NewRequest(m, <<"/","p">>, b) /\ UNCHANGED <<configVars, headerVars, parseVars, taskVars>>
    \/ SignRequest /\ UNCHANGED <<configVars, headerVars, parseVars, taskVars>>
    \/ Tick /\ UNCHANGED <<configVars, headerVars, parseVars, taskVars>>

Spec == Init /\ [][Next]_vars

-----------------------------------------------------------------------------
(* Loading credentials: the environment, the credentials file and the      *)
(* calls of EdgeGridConfig::from_edgerc                                    *)

DefaultSection == <<"d","e","f","a","u","l","t">>

Sections == {DefaultSection, <<"s">>}

FieldKeys == {ClientTokenKey, ClientSecretKey, AccessTokenKey, HostKey}

\* The order in which a section's lines are written
FieldOrder == <<ClientSecretKey, HostKey, AccessTokenKey, ClientTokenKey>>

\* The value a section holds for a field when nothing is wrong with it
BaseValue(section, key) ==
    IF section = DefaultSection
    THEN CASE key = ClientTokenKey -> <<"c","t">>
           [] key = ClientSecretKey -> <<"c","s">>
           [] key = AccessTokenKey -> <<"a","t">>
           [] OTHER -> <<"h">>
    ELSE CASE key = ClientTokenKey -> <<"c","u">>
           [] key = ClientSecretKey -> <<"c","v">>
           [] key = AccessTokenKey -> <<"a","u">>
           [] OTHER -> <<"g">>

\* A value and the way it is written after `key = `
Written(value, style) == [value |-> value, style |-> style]

Absent == Written(<<>>, "absent")

\* The ways of writing a value that parse_value reads back
ReadableStyles == {"plain", "dquote", "squote", "comment"}

\* The text of a written value
ValueText(w) ==
    CASE w.style = "plain" -> w.value
      [] w.style = "dquote" -> <<"\"">> \o w.value \o <<"\"">>
      [] w.style = "squote" -> <<"'">> \o w.value \o <<"'">>
      [] w.style = "comment" -> w.value \o <<" ",";"," ","c">>
      [] w.style = "dquote_comment" ->
            <<"\"">> \o w.value \o <<"\"">> \o <<" ",";"," ","c">>

\* The ways one field is written other than plainly with its base value
FieldDeviations(v) ==
    { Absent, Written(<<>>, "plain"), Written(<<" ">>, "dquote"),
      Written(v, "dquote"), Written(v, "squote"), Written(v, "comment"),
      Written(v, "dquote_comment"), Written(<<"\"">>, "plain") }

HostDeviations(v) ==
    { Written(v \o <<"/">>, "plain"), Written(v \o <<"/","/">>, "plain"),
      Written(v \o <<"/","/","/">>, "plain"),
      Written(HttpsPrefix \o v, "plain") }

BaseLayout(section) ==
    [name |-> section,
     fields |-> [k \in FieldKeys |-> Written(BaseValue(section, k), "plain")]]

\* The sections a file may hold: the base layout with at most one field
\* written another way
SectionLayouts(section) ==
    {BaseLayout(section)}
        \cup UNION { { [BaseLayout(section) EXCEPT !.fields[k] = w] :
                          w \in FieldDeviations(BaseValue(section, k)) } :
                      k \in FieldKeys }
        \cup { [BaseLayout(section) EXCEPT !.fields[HostKey] = w] :
                 w \in HostDeviations(BaseValue(section, HostKey)) }

RECURSIVE FieldLines(_, _)
FieldLines(layout, keys) ==
    IF keys = <<>> THEN <<>>
    ELSE LET w == layout.fields[Head(keys)]
         IN  (IF w.style = "absent" THEN <<>>
              ELSE << Head(keys) \o <<" ","="," ">> \o ValueText(w) >>)
                 \o FieldLines(layout, Tail(keys))

SectionLines(layout) ==
    << <<"[">> \o layout.name \o <<"]">> >> \o FieldLines(layout, FieldOrder)

RECURSIVE LayoutLines(_)
LayoutLines(layouts) ==
    IF layouts = <<>> THEN <<>>
    ELSE SectionLines(Head(layouts)) \o LayoutLines(Tail(layouts))

FilePath == <<"/","r","/","e">>

\* A credentials file: a comment line, then its sections
FileOf(layouts) ==
    [path |-> FilePath, layout |-> layouts,
     lines |-> << <<";"," ","c">> >> \o LayoutLines(layouts)]

\* Files of one section, and of two sections with different names of which
\* the second is written plainly
Files ==
    {FileOf(<<l>>) : l \in UNION {SectionLayouts(n) : n \in Sections}}
        \cup UNION { {FileOf(<<l, BaseLayout(n)>>) : n \in Sections \ {l.name}} :
                      l \in UNION {SectionLayouts(m) : m \in Sections} }

EnvName(section, suffix) ==
    (IF section = DefaultSection THEN <<"A","K","A","M","A","I","_">>
     ELSE <<"A","K","A","M","A","I","_">> \o ToUppercase(section) \o <<"_">>) \o suffix

EnvHost == <<"H","O","S","T">>

EnvClientToken == <<"C","L","I","E","N","T","_","T","O","K","E","N">>

EnvClientSecret == <<"C","L","I","E","N","T","_","S","E","C","R","E","T">>

EnvAccessToken == <<"A","C","C","E","S","S","_","T","O","K","E","N">>

\* The four variables of a section, with values no file of the model holds
SectionEnv(section) ==
    [n \in {EnvName(section, x) : x \in {EnvHost, EnvClientToken, EnvClientSecret,
                                          EnvAccessToken}} |->
        CASE n = EnvName(section, EnvHost) -> <<"e","h">>
          [] n = EnvName(section, EnvClientToken) -> <<"e","c">>
          [] n = EnvName(section, EnvClientSecret) -> <<"e","s">>
          [] OTHER -> <<"e","a">>]

Restrict(f, S) == [x \in S |-> f[x]]

HomeDir == SomeText(<<"/","r">>)

EmptyEnv == [vars |-> NoMap, home |-> HomeDir]

\* The environments of the model: no variable set, with and without a home
\* directory; the four variables of a section set; one of them set to the
\* empty text; one of them unset
Environments ==
    { EmptyEnv, [vars |-> NoMap, home |-> NoneText] }
        \cup { [vars |-> SectionEnv(n), home |-> HomeDir] : n \in Sections }
        \cup { [vars |-> [SectionEnv(DefaultSection) EXCEPT
                             ![EnvName(DefaultSection, EnvClientToken)] = <<>>],
                home |-> HomeDir],
               [vars |-> Restrict(SectionEnv(DefaultSection),
                            DOMAIN SectionEnv(DefaultSection)
                                \ {EnvName(DefaultSection, EnvAccessToken)}),
                home |-> HomeDir] }

EdgercPaths == {FilePath, <<"~","/","e">>}

\* The environment the process is started in
SetEnvironment(e) ==
    /\ env = EmptyEnv
    /\ file = Nothing
    /\ loaded = Nothing
    /\ e # EmptyEnv
    /\ env' = e
    /\ UNCHANGED <<file, loaded>>

\* The credentials file is written
WriteFile(f) ==
    /\ file = Nothing
    /\ loaded = Nothing
    /\ file' = f
    /\ UNCHANGED <<env, loaded>>

\* EdgeGridConfig::from_edgerc(path, section)
FromEdgerc(path, section) ==
    /\ loaded' = [path |-> path, section |-> section,
                  result |-> from_edgerc(env, file, path, section)]
    /\ loaded' # loaded
    /\ UNCHANGED <<env, file>>

InitConfig ==
    /\ InitSign
    /\ IdleHeaders
    /\ IdleParse
    /\ env = EmptyEnv
    /\ file = Nothing
    /\ loaded = Nothing

NextConfig ==
    \/ \E e \in Environments : SetEnvironment(e) /\ UNCHANGED <<signVars, headerVars, parseVars, taskVars>>
    \/ \E f \in Files : WriteFile(f) /\ UNCHANGED <<signVars, headerVars, parseVars, taskVars>>
    \/ \E p \in EdgercPaths, n \in Sections :
          FromEdgerc(p, n) /\ UNCHANGED <<signVars, headerVars, parseVars, taskVars>>

SpecConfig == InitConfig /\ [][NextConfig]_vars

-----------------------------------------------------------------------------
(* Canonical headers: a header map and the calls of canonicalize_headers   *)

\* The number of entries of a header map
MaxHeaders == 3

HeaderKeys == {<<"X","-","A">>, <<"x","-","a">>, <<"X","-","B">>, <<"b">>}

HeaderValues == {<<"1">>, <<" ","2"," ">>}

\* headers.insert(key, value)
HeadersInsert(key, value) ==
    /\ Cardinality(DOMAIN hmap \cup {key}) <= MaxHeaders
    /\ hmap' = MapInsert(hmap, key, value)
    /\ hmap' # hmap
    /\ hout' = Nothing

\* The entries of a map in the order `keys`
Entries(map, keys) == [i \in 1..Len(keys) |-> <<keys[i], map[keys[i]]>>]

\* canonicalize_headers(&headers), the map iterating in some order
Canonicalize ==
    /\ \E keys \in Orders(DOMAIN hmap) :
          hout' = [order |-> keys, text |-> canonicalize_headers(Entries(hmap, keys))]
    /\ UNCHANGED hmap

NextHeaders ==
    \/ \E k \in HeaderKeys, v \in HeaderValues :
          HeadersInsert(k, v) /\ UNCHANGED <<signVars, configVars, parseVars, taskVars>>
    \/ Canonicalize /\ UNCHANGED <<signVars, configVars, parseVars, taskVars>>

InitHeaders == InitSign /\ IdleConfig /\ IdleHeaders /\ IdleParse

SpecHeaders == InitHeaders /\ [][NextHeaders]_vars

-----------------------------------------------------------------------------
(* Values of a credentials file: a value text and the calls of parse_value *)

\* The length of a value text
MaxValueLen == 6

ValueChars == {"v", "\"", "'", ";", " "}

\* One more character of the value text
TypeValue(c) ==
    /\ Len(vtext) < MaxValueLen
    /\ vtext' = Append(vtext, c)
    /\ vout' = Nothing
    /\ UNCHANGED <<content, sections>>

\* parse_value(value)
ParseValue ==
    /\ vout = Nothing
    /\ vout' = [text |-> vtext, result |-> parse_value(vtext)]
    /\ UNCHANGED <<vtext, content, sections>>

InitValue == InitSign /\ IdleConfig /\ IdleHeaders /\ IdleParse

NextValue ==
    \/ \E c \in ValueChars : TypeValue(c) /\ UNCHANGED <<signVars, configVars, headerVars, taskVars>>
    \/ ParseValue /\ UNCHANGED <<signVars, configVars, headerVars, taskVars>>

SpecValue == InitValue /\ [][NextValue]_vars

-----------------------------------------------------------------------------
(* Concurrent use of one client: tasks that call request(..).send() or     *)
(* sign_request on it, interleaved between the statements of sign_request  *)

\* The number of tasks
MaxTasks == 2

TaskIds == 1..MaxTasks

IdleTask == [pc |-> "idle"]

\* EdgeGridClient::new as the caller's variable holds it
NewClient(input) ==
    [state |-> "ok", args |-> input,
     result |-> EdgeGridClient_new(
                    [EdgeGridConfig_new(input.client_token, input.client_secret,
                         input.access_token, input.host)
                       EXCEPT !.max_body = input.max_body])]

\* The credentials of the shared client
TaskInputs ==
    {Creds(<<"c","t">>, <<"c","s">>, <<"a","t">>, <<"h">>, mb) : mb \in {MAX_BODY, SmallMaxBody}}

\* The requests a task sends through a builder: a POST with a body
SendCalls == { [method |-> POST, body |-> BytesBody(<<"a","b">>)] }

\* The requests a task builds and signs itself: a GET
SignCalls == { [method |-> <<"G","E","T">>, body |-> NoBody] }

\* The configuration a task's signing call reads: through the clone of the
\* EdgeGridAuth its builder took, or through the shared reference
TaskConfig(task, shared) ==
    IF task.kind = "send" THEN task.auth.config ELSE shared.result.val.auth.config

\* The nonce create_auth_header is given: the call's own local variable,
\* but the nonce generated last by any call
NonceOf_shared(task, log) == log[Len(log)]

\* The nonce create_auth_header is given: the call's own local variable
NonceOf(task, log) == task.nonce

\* client.request(method, "/p").body(..): the task holds a builder
TaskRequest(t, call) ==
    /\ tasks[t].pc = "idle"
    /\ \E b \in {Builder_body(EdgeGridClient_request(client.result.val, call.method,
                                                   <<"/","p">>), call.body)} :
          tasks' = [tasks EXCEPT ![t] = [pc |-> "builder", kind |-> "send",
                                         auth |-> b.auth, builder |-> b]]
    /\ UNCHANGED <<client, builder, request, last, now, issued>>

\* send: the request is built
TaskBuild(t) ==
    /\ tasks[t].pc = "builder"
    /\ \E built \in {Builder_build(tasks[t].builder, <<>>)} :
          tasks' = [tasks EXCEPT ![t] = [pc |-> "called", kind |-> "send",
                                         auth |-> tasks[t].auth,
                                         before |-> built.val, request |-> built.val]]
    /\ UNCHANGED <<client, builder, request, last, now, issued>>

\* The task has a request of its own and calls auth.sign_request on it
TaskSign(t, call) ==
    /\ tasks[t].pc = "idle"
    /\ \E req \in {[method |-> call.method,
                    url |-> RequestUrl(client.result.val, <<"/","p">>),
                    headers |-> EmptyMap, body |-> call.body]} :
          tasks' = [tasks EXCEPT ![t] = [pc |-> "called", kind |-> "sign",
                                         before |-> req, request |-> req]]
    /\ UNCHANGED <<client, builder, request, last, now, issued>>

\* sign_request, line 36
TaskTimestamp(t) ==
    /\ tasks[t].pc = "called"
    /\ tasks' = [tasks EXCEPT ![t] = [@ EXCEPT !.pc = "stamped"]
                                        @@ [timestamp |-> create_timestamp(now)]]
    /\ UNCHANGED <<client, builder, request, last, now, issued>>

\* sign_request, line 37
TaskNonce(t) ==
    /\ tasks[t].pc = "stamped"
    /\ tasks' = [tasks EXCEPT ![t] = [@ EXCEPT !.pc = "nonced"]
                                        @@ [nonce |-> NextNonce(issued)]]
    /\ issued' = Append(issued, NextNonce(issued))
    /\ UNCHANGED <<client, builder, request, last, now>>

\* sign_request, line 54
TaskHash(t) ==
    /\ tasks[t].pc = "nonced"
    /\ tasks' = [tasks EXCEPT ![t] = [@ EXCEPT !.pc = "hashed"]
                    @@ [content_hash |->
                           calculate_content_hash(TaskConfig(tasks[t], client),
                                                  tasks[t].request)]]
    /\ UNCHANGED <<client, builder, request, last, now, issued>>

\* sign_request, lines 57 to 65
TaskHeader(t) ==
    /\ tasks[t].pc = "hashed"
    /\ tasks[t].content_hash.ok
    /\ tasks' = [tasks EXCEPT ![t] = [@ EXCEPT !.pc = "headed"]
                    @@ [auth_header |->
                           create_auth_header(TaskConfig(tasks[t], client),
                               tasks[t].request.method, tasks[t].request.url,
                               FullPath(tasks[t].request.url),
                               get_headers_to_sign(tasks[t].request),
                               tasks[t].content_hash.val, tasks[t].timestamp,
                               NonceOf(tasks[t], issued))]]
    /\ UNCHANGED <<client, builder, request, last, now, issued>>

\* sign_request, lines 68 to 72
TaskInsert(t) ==
    /\ tasks[t].pc = "headed"
    /\ \E signed \in {SignWithHeader(tasks[t].request, tasks[t].auth_header)} :
          tasks' = [tasks EXCEPT ![t] = [@ EXCEPT !.pc = "signed",
                                                  !.request = signed.request]
                                            @@ [result |-> signed.result]]
    /\ UNCHANGED <<client, builder, request, last, now, issued>>

\* send: the signed request is handed to the transport
TaskExecute(t) ==
    /\ tasks[t].pc = "signed"
    /\ tasks[t].kind = "send"
    /\ tasks[t].result.ok
    /\ tasks' = [tasks EXCEPT ![t] = [@ EXCEPT !.pc = "done"] @@ [wire |-> @.request]]
    /\ UNCHANGED <<client, builder, request, last, now, issued>>

\* A second passes
TaskTick ==
    /\ now < MaxClock
    /\ issued # <<>>
    /\ now' = now + 1
    /\ UNCHANGED <<client, builder, request, last, issued, tasks>>

InitTasks ==
    /\ \E input \in TaskInputs : client = NewClient(input)
    /\ builder = Nothing
    /\ request = Nothing
    /\ last = NoLast
    /\ now = 0
    /\ issued = <<>>
    /\ IdleConfig
    /\ IdleHeaders
    /\ vtext = <<>>
    /\ vout = Nothing
    /\ content = Nothing
    /\ sections = Nothing
    /\ tasks = [t \in TaskIds |-> IdleTask]

NextTasks ==
    \/ \E t \in TaskIds, c \in SendCalls : TaskRequest(t, c) /\ UNCHANGED <<configVars, headerVars, parseVars>>
    \/ \E t \in TaskIds : TaskBuild(t) /\ UNCHANGED <<configVars, headerVars, parseVars>>
    \/ \E t \in TaskIds, c \in SignCalls : TaskSign(t, c) /\ UNCHANGED <<configVars, headerVars, parseVars>>
    \/ \E t \in TaskIds : TaskTimestamp(t) /\ UNCHANGED <<configVars, headerVars, parseVars>>
    \/ \E t \in TaskIds : TaskNonce(t) /\ UNCHANGED <<configVars, headerVars, parseVars>>
    \/ \E t \in TaskIds : TaskHash(t) /\ UNCHANGED <<configVars, headerVars, parseVars>>
    \/ \E t \in TaskIds : TaskHeader(t) /\ UNCHANGED <<configVars, headerVars, parseVars>>
    \/ \E t \in TaskIds : TaskInsert(t) /\ UNCHANGED <<configVars, headerVars, parseVars>>
    \/ \E t \in TaskIds : TaskExecute(t) /\ UNCHANGED <<configVars, headerVars, parseVars>>
    \/ TaskTick /\ UNCHANGED <<configVars, headerVars, parseVars>>

SpecTasks == InitTasks /\ [][NextTasks]_vars

-----------------------------------------------------------------------------
(* Properties of signing                                                   *)

\* str::split on a character: the fields of s
RECURSIVE Split(_, _)
Split(s, sep) ==
    LET i == Find(s, sep)
    IN  IF i = 0 THEN <<s>> ELSE <<Take(s, i - 1)>> \o Split(Skip(s, i), sep)

\* The last operation made a sign_request call
Signed == last.op # "none" /\ last.call.built

\* The configuration the last signing call read
SigningConfig == client.result.val.auth.config

\* The seven fields of the string-to-sign of the last signing call
SignedFields == Split(last.trace.data_to_sign, "\t")

\* The values of the Authorization header of a request, <<>> when it has none
AuthorizationOf(req) ==
    IF AuthorizationName \in DOMAIN req.headers THEN req.headers[AuthorizationName]
    ELSE <<>>

\* C1: signing has no partial success: whenever sign_request returns Ok the
\* request carries an Authorization header holding the value just computed,
\* and whenever the computed value is no HTTP header value sign_request
\* returns an error.
C1_NoPartialSuccess ==
    Signed /\ last.trace.auth_header.ok =>
        /\ last.call.signed.ok =>
              AuthorizationOf(last.call.after) = <<last.trace.auth_header.val>>
        /\ ~HeaderValueParse(last.trace.auth_header.val).ok => ~last.call.signed.ok

\* The arguments of EdgeGridConfig::new that are empty
EmptyArgs ==
    {f \in {"client_token", "client_secret", "access_token", "host"} :
        client.args[f] = <<>>}

\* C2: with exactly one of client_token, client_secret, access_token, host
\* empty, EdgeGridClient::new(EdgeGridConfig::new(...)) fails with
\* MissingCredential.
C2_SingleEmptyIsMissingCredential ==
    client.state # "none" /\ Cardinality(EmptyArgs) = 1 =>
        ~client.result.ok /\ client.result.err = "MissingCredential"

IdentityFields(config) ==
    <<config.client_token, config.client_secret, config.access_token, config.host>>

\* C3 as stated: a client that was built holds four non-empty, trimmed
\* identity fields and a host with a scheme.
C3_CredentialsTrimmed ==
    client.state = "ok" =>
        /\ \A i \in 1..4 :
              LET f == IdentityFields(SigningConfig)[i]
              IN  f # <<>> /\ Trim(f) = f
        /\ StartsWith(SigningConfig.host, HttpsPrefix)

\* C3, amended: a client that was built holds four identity fields that are
\* neither empty nor blank (they are held as given, untrimmed), its host
\* starts with https://, and no later operation changes the client.
C3_CredentialSetInvariant ==
    /\ [](client.state = "ok" =>
            /\ \A i \in 1..4 : Trim(IdentityFields(SigningConfig)[i]) # <<>>
            /\ StartsWith(SigningConfig.host, HttpsPrefix)
            /\ SigningConfig = [EdgeGridConfig_new(client.args.client_token,
                                    client.args.client_secret,
                                    client.args.access_token, client.args.host)
                                  EXCEPT !.max_body = client.args.max_body])
    /\ [][client.state = "ok" => client' = client]_vars

\* A client holding an untrimmed token has sent a request
C3_Witness ==
    /\ client.state = "ok"
    /\ Trim(SigningConfig.client_token) # SigningConfig.client_token
    /\ last.op = "send"
    /\ last.call.sent

\* from_edgerc was called on the path of the file that was written
LoadedFromFile ==
    /\ loaded # Nothing
    /\ file # Nothing
    /\ resolve_home_path(env, loaded.path) = Ok(file.path)

\* The sections of the file that carry the requested name
RequestedSections ==
    {i \in 1..Len(file.layout) : file.layout[i].name = loaded.section}

\* The requested section as the file writes it (the last of that name)
RequestedLayout ==
    file.layout[CHOOSE i \in RequestedSections : \A j \in RequestedSections : j <= i]

WithScheme(host) ==
    IF StartsWith(host, HttpsPrefix) THEN host ELSE HttpsPrefix \o host

\* C4, in its plainest case: no environment variable is set, the file is
\* read, and the requested section writes four non-empty values plainly,
\* its host without a trailing slash; then from_edgerc returns Ok with
\* client_token, client_secret and access_token as written and the host
\* prefixed with https://.
C4_RoundTrip ==
    /\ LoadedFromFile
    /\ env.vars = NoMap
    /\ RequestedSections # {}
    /\ RequestedLayout = BaseLayout(loaded.section)
    => /\ loaded.result.ok
       /\ \A k \in {ClientTokenKey, ClientSecretKey, AccessTokenKey} :
             LET got == loaded.result.val
                 held == CASE k = ClientTokenKey -> got.client_token
                           [] k = ClientSecretKey -> got.client_secret
                           [] OTHER -> got.access_token
             IN  held = RequestedLayout.fields[k].value
       /\ loaded.result.val.host = WithScheme(RequestedLayout.fields[HostKey].value)

\* The fields the requested section leaves out, or writes empty or blank
DeficientFields ==
    {k \in FieldKeys :
        LET w == RequestedLayout.fields[k]
        IN  \/ w.style = "absent"
            \/ w.style \in {"plain", "dquote", "squote"} /\ Trim(w.value) = <<>>}

\* C5: with no overriding environment variable set, when the requested
\* section exists in the file and one of its four fields is missing, empty
\* or whitespace-only, from_edgerc fails with MissingCredential for that
\* field.
C5_DeficientFieldIsMissingCredential ==
    /\ LoadedFromFile
    /\ env.vars = NoMap
    /\ RequestedSections # {}
    /\ DeficientFields # {}
    => /\ ~loaded.result.ok
       /\ loaded.result.err = "MissingCredential"
       /\ loaded.result.arg \in DeficientFields

Min(a, b) == IF a < b THEN a ELSE b

\* Value texts: a core value, as it is, in double or in single quotes
Quoted(v) == {v, <<"\"">> \o v \o <<"\"">>, <<"'">> \o v \o <<"'">>}

\* Inline comments, and none
InlineComments == {<<>>, <<";">>, <<" ",";">>, <<";","v">>, <<" ",";"," ","v">>}

\* C11: parse_value returns the value without its surrounding matching
\* quotes, without an inline `;` comment and without surrounding whitespace,
\* also when a quoted value is followed by an inline comment: for a core
\* value v, the texts v, "v" and 'v', each with or without a comment after
\* it, all yield v.
C11_ValueSyntax ==
    vout # Nothing =>
        \A v \in {<<"v">>, <<"v","v">>} :
            \A q \in Quoted(v), c \in InlineComments :
                vout.text = q \o c => vout.result = Ok(v)

\* C6: a POST body longer than max_body is hashed over its first max_body
\* bytes and the call returns Ok; a body of at most max_body bytes is hashed
\* whole; so two bodies of max_body and max_body + 1 bytes that agree on the
\* first max_body bytes have the same content hash.
C6_BodyTruncation ==
    /\ Signed /\ last.call.before.method = POST
              /\ last.call.before.body.kind = "bytes" =>
          LET bytes == last.call.before.body.bytes
              hashed == Take(bytes, Min(Len(bytes), SigningConfig.max_body))
          IN  /\ last.trace.content_hash = Ok(Base64Encode(Sha256(hashed)))
              /\ SignedFields[6] = Base64Encode(Sha256(hashed))
    /\ client.state = "ok" =>
          \A mb \in 0..MaxBodyLen :
             \A b1 \in {b \in ByteSeqs : Len(b) = mb} :
                \A x \in Bytes :
                   LET config == [SigningConfig EXCEPT !.max_body = mb]
                       req(b) == [method |-> POST, body |-> BytesBody(b)]
                       h1 == calculate_content_hash(config, req(b1))
                       h2 == calculate_content_hash(config, req(Append(b1, x)))
                   IN  h1.ok /\ h2 = h1

\* A POST whose body is longer than max_body was signed
C6_Witness ==
    /\ Signed
    /\ last.call.before.method = POST
    /\ last.call.before.body.kind = "bytes"
    /\ Len(last.call.before.body.bytes) > SigningConfig.max_body
    /\ last.call.signed.ok

\* C7: for a method other than POST the content hash, and so the sixth field
\* of the string-to-sign, is empty, with or without a body; for a POST with
\* an in-memory body it is not empty.
C7_HashOnlyForPost ==
    Signed =>
        /\ last.call.before.method # POST =>
              last.trace.content_hash = Ok(<<>>) /\ SignedFields[6] = <<>>
        /\ last.call.before.method = POST /\ last.call.before.body.kind = "bytes" =>
              last.trace.content_hash.ok /\ SignedFields[6] # <<>>

\* A PUT with a body in memory was signed
C7_Witness ==
    /\ Signed
    /\ last.call.before.method = <<"P","U","T">>
    /\ last.call.before.body.kind = "bytes"
    /\ last.call.before.body.bytes # <<>>

\* C8: for every header map, maps whose names differ only in letter case
\* included, canonicalize_headers returns the same text whatever order the
\* map iterates in.
C8_OrderInvariant ==
    hout # Nothing =>
        \A keys \in Orders(DOMAIN hmap) :
            canonicalize_headers(Entries(hmap, keys)) = hout.text

\* C9: the Authorization value is the prefix that is the last field of the
\* string-to-sign, then "signature=" and the signature; the prefix holds
\* client_token, access_token, timestamp and nonce in this order.
C9_PrefixHeaderConsistency ==
    Signed /\ last.trace.auth_header.ok =>
        LET prefix == SignedFields[Len(SignedFields)]
            key == create_signing_key(SigningConfig, last.timestamp)
            signature == sign_data(last.trace.data_to_sign, key.val)
        IN  /\ Len(SignedFields) = 7
            /\ signature.ok
            /\ last.trace.auth_header.val
                  = prefix \o <<"s","i","g","n","a","t","u","r","e","=">>
                        \o signature.val
            /\ prefix
                  = <<"E","G","1","-","H","M","A","C","-","S","H","A","2","5","6",
                      " ","c","l","i","e","n","t","_","t","o","k","e","n","=">>
                        \o SigningConfig.client_token
                        \o <<";","a","c","c","e","s","s","_","t","o","k","e","n","=">>
                        \o SigningConfig.access_token
                        \o <<";","t","i","m","e","s","t","a","m","p","=">>
                        \o last.timestamp
                        \o <<";","n","o","n","c","e","=">> \o last.nonce \o <<";">>
            /\ last.call.signed.ok /\ AuthorizationOf(last.call.after) # <<>>
                  /\ HeaderValueParse(last.trace.auth_header.val).ok =>
                  AuthorizationOf(last.call.after) = <<last.trace.auth_header.val>>

\* A request was signed and carries the header
C9_Witness ==
    /\ Signed
    /\ last.trace.auth_header.ok
    /\ AuthorizationOf(last.call.after) = <<last.trace.auth_header.val>>
    /\ last.call.before.url.query.some

\* The nonces generated so far differ from one another, and the last signing
\* call used the one generated last
OwnNonce ==
    /\ \A i, j \in 1..Len(issued) : i # j => issued[i] # issued[j]
    /\ Signed =>
          /\ issued # <<>> /\ last.nonce = issued[Len(issued)]
          /\ last.call.signed.ok /\ HeaderValueParse(last.trace.auth_header.val).ok =>
                AuthorizationOf(last.call.after) = <<last.trace.auth_header.val>>

\* C10 as stated: every sign_request call generates its own timestamp and
\* nonce, two calls never produce the same nonce, and each send performs
\* exactly one sign_request.
C10_EachSendSignsOnce ==
    /\ OwnNonce
    /\ last.op = "send" => last.call.signs = 1

\* C10, amended: every sign_request call generates its own timestamp and
\* nonce, two calls never produce the same nonce, and each send performs one
\* sign_request of its own when its request builds and none when it does not.
C10_FreshNoncePerCall ==
    /\ [](/\ OwnNonce
          /\ last.op = "send" => last.call.signs = IF last.call.built THEN 1 ELSE 0)
    /\ [][issued' # issued =>
            /\ Len(issued') = Len(issued) + 1
            /\ \A i \in 1..Len(issued) : issued'[Len(issued')] # issued[i]
            /\ last'.op # "none" /\ last'.call.signs = 1
            /\ last'.timestamp = create_timestamp(now)]_vars

\* A request that was signed before is signed again
C10_Witness ==
    /\ Len(issued) = 2
    /\ last.op = "sign"
    /\ AuthorizationOf(last.call.before) # <<>>
    /\ AuthorizationOf(last.call.after) # AuthorizationOf(last.call.before)

\* The tasks whose signing call has set the header
SignedTasks == {t \in TaskIds : tasks[t].pc \in {"signed", "done"}}

\* The tasks that have drawn their nonce
NoncedTasks == {t \in TaskIds : tasks[t].pc \in {"nonced", "hashed", "headed", "signed", "done"}}

\* Each call that has set its header left what sign_request makes of its own
\* request, timestamp and nonce, and the nonces of two calls differ
TasksOwnResults ==
         (/\ \A t \in SignedTasks :
                /\ tasks[t].request =
                      sign_request(SigningConfig, tasks[t].before,
                                   tasks[t].timestamp, tasks[t].nonce).request
                /\ tasks[t].result =
                      sign_request(SigningConfig, tasks[t].before,
                                   tasks[t].timestamp, tasks[t].nonce).result
                /\ tasks[t].pc = "done" => tasks[t].wire = tasks[t].request
          /\ \A t, u \in NoncedTasks : t # u => tasks[t].nonce # tasks[u].nonce)

\* C12: whatever the interleaving of the tasks that send or sign on one
\* client, the request each call leaves, its Authorization header included,
\* is what sign_request makes of the call's own request, the client's
\* credential set and the call's own timestamp and nonce; the nonces of two
\* calls differ; what is transmitted is the call's own signed request; and
\* the client stays as EdgeGridClient::new made it.
C12_NoInterference == client = NewClient(client.args) /\ TasksOwnResults

\* A call that drew its nonce after another call has set its header while
\* the other has not yet computed its own
C12_Witness ==
    /\ tasks[1].pc = "nonced"
    /\ tasks[1].nonce = Uuid_new_v4(1)
    /\ tasks[2].pc = "done"
    /\ tasks[2].nonce = Uuid_new_v4(2)
    /\ tasks[2].request.method = POST

\* The headers of a request other than Authorization
OtherHeaders(req) ==
    [n \in DOMAIN req.headers \ {AuthorizationName} |-> req.headers[n]]

\* C13: sign_request leaves the request's method, URL, body and every header
\* other than Authorization unchanged and leaves the credential set
\* unchanged; after a successful call the request has exactly one
\* Authorization header, the one just computed (one the caller had set is
\* replaced).
C13_Frame ==
    Signed =>
        /\ last.call.after.method = last.call.before.method
        /\ last.call.after.url = last.call.before.url
        /\ last.call.after.body = last.call.before.body
        /\ OtherHeaders(last.call.after) = OtherHeaders(last.call.before)
        /\ client = NewClient(client.args)
        /\ last.call.signed.ok /\ last.trace.auth_header.ok =>
              AuthorizationOf(last.call.after) = <<last.trace.auth_header.val>>

-----------------------------------------------------------------------------
(* The requests one client sends: the methods and the paths a caller may   *)
(* give to EdgeGridClient::request                                          *)

\* Method::POST, and the extension methods that Method::from_bytes returns
\* for other spellings
RouteMethods == {<<"G","E","T">>, POST, <<"p","o","s","t">>}

\* Paths given to request: absolute with no, an empty and a non-empty query,
\* relative, scheme-relative, and an absolute URL
RoutePaths ==
    { <<"/","p">>, <<"/","p","?">>, <<"/","p","?","a","=","1">>, <<"x">>,
      <<"/","/","o","/","x">>, <<"h","t","t","p","s",":","/","/","o","/","x">> }

RouteInputs ==
    {Creds(<<"c","t">>, <<"c","s">>, <<"a","t">>, <<"h">>, mb) :
        mb \in {MAX_BODY, SmallMaxBody}}

InitPaths == InitSign /\ IdleConfig /\ IdleHeaders /\ IdleParse

NextPaths ==
    \/ \E input \in RouteInputs : ClientNew(input) /\ UNCHANGED <<configVars, headerVars, parseVars, taskVars>>
    \/ \E m \in RouteMethods, p \in RoutePaths : Request(m, p) /\ UNCHANGED <<configVars, headerVars, parseVars, taskVars>>
    \/ \E k \in QueryKeys, v \in QueryValues : Query(k, v) /\ UNCHANGED <<configVars, headerVars, parseVars, taskVars>>
    \/ \E h \in CallerHeaders : Header(h[1], h[2]) /\ UNCHANGED <<configVars, headerVars, parseVars, taskVars>>
    \/ \E b \in Bodies : Body(b) /\ UNCHANGED <<configVars, headerVars, parseVars, taskVars>>
    \/ Send /\ UNCHANGED <<configVars, headerVars, parseVars, taskVars>>

SpecPaths == InitPaths /\ [][NextPaths]_vars

\* The last operation was a send
Sending == last.op = "send"

\* The `key=value` pairs of a query text
QueryPairs(query) ==
    IF ~query.some \/ query.text = <<>> THEN {}
    ELSE LET fields == Split(query.text, "&")
         IN  {fields[i] : i \in DOMAIN fields}

\* C14: in send the query parameters are added to the URL, the request is
\* built, signed, then executed: the path field of the string-to-sign is the
\* path and query of the request that is transmitted (the path alone when it
\* has no query or an empty one), the request transmitted is the one the
\* signing call left, every query parameter of the builder is in its URL,
\* and when building or signing fails send returns that error and nothing is
\* transmitted.
C14_SignedPathIsSentPath ==
    /\ [](Sending =>
            /\ ~last.call.built =>
                  ~last.call.sent /\ ~last.call.result.ok
                      /\ last.call.result.err = "HttpError"
            /\ last.call.built /\ ~last.call.signed.ok =>
                  ~last.call.sent /\ last.call.result = last.call.signed
            /\ last.call.sent =>
                  /\ last.call.built /\ last.call.signed.ok
                  /\ last.call.wire = last.call.after
                  /\ SignedFields[4] =
                        last.call.wire.url.path
                            \o (IF last.call.wire.url.query.some
                                    /\ last.call.wire.url.query.text # <<>>
                                THEN <<"?">> \o last.call.wire.url.query.text
                                ELSE <<>>))
    /\ [][builder # Nothing /\ last'.op = "send" /\ last'.call.sent =>
            \A k \in DOMAIN builder.query_params :
                (k \o <<"=">> \o builder.query_params[k])
                    \in QueryPairs(last'.call.wire.url.query)]_vars

\* A request with two query parameters of the builder, added to a URL that
\* had a query already, was transmitted
C14_Witness ==
    /\ Sending
    /\ last.call.sent
    /\ Cardinality(QueryPairs(last.call.wire.url.query)) = 3

\* C15: every configuration from_edgerc returns Ok, from the environment or
\* from the file, has client_token, client_secret, access_token and host
\* non-empty and not whitespace-only.
C15_LoadedFieldsNotBlank ==
    loaded # Nothing /\ loaded.result.ok =>
        /\ Trim(loaded.result.val.client_token) # <<>>
        /\ Trim(loaded.result.val.client_secret) # <<>>
        /\ Trim(loaded.result.val.access_token) # <<>>
        /\ Trim(loaded.result.val.host) # <<>>

-----------------------------------------------------------------------------
(* parse_edgerc on texts put together from groups of lines                 *)

MaxBlocks == 3

\* Groups of lines a text is made of: a key-value line on its own (which
\* falls before the first header or into the section written before it), a
\* comment and a line without `=`, a value that is one quote character, and
\* sections: complete, without a host, and with the host written twice
ParseBlocks ==
    { << ClientTokenKey \o <<" ","="," ","z","z">> >>,
      << <<"#"," ","c">>, <<"j","u","n","k">> >>,
      << HostKey \o <<" ","="," ","'">> >> }
        \cup {SectionLines(BaseLayout(n)) : n \in Sections}
        \cup {SectionLines([BaseLayout(n) EXCEPT !.fields[HostKey] = Absent]) :
                 n \in Sections}
        \cup {SectionLines(BaseLayout(n)) \o << HostKey \o <<" ","="," ","o">> >> :
                 n \in Sections}

\* str::lines of the text: the lines of its groups, in order
RECURSIVE ContentLines(_)
ContentLines(blocks) ==
    IF blocks = <<>> THEN <<>> ELSE Head(blocks) \o ContentLines(Tail(blocks))

\* More lines are written to the text
AppendLines(block) ==
    /\ sections = Nothing
    /\ Len(content) < MaxBlocks
    /\ content' = Append(content, block)
    /\ UNCHANGED <<vtext, vout, sections>>

\* parse_edgerc(&content)
ParseEdgerc ==
    /\ sections = Nothing
    /\ sections' = [ lines  |-> ContentLines(content),
                     result |-> parse_edgerc(ContentLines(content)) ]
    /\ UNCHANGED <<vtext, vout, content>>

InitParse ==
    /\ InitSign /\ IdleConfig /\ IdleHeaders
    /\ vtext = <<>> /\ vout = Nothing
    /\ content = <<>> /\ sections = Nothing
    /\ tasks = <<>>

NextParse ==
    \/ \E block \in ParseBlocks : AppendLines(block) /\ UNCHANGED <<signVars, configVars, headerVars, taskVars>>
    \/ ParseEdgerc /\ UNCHANGED <<signVars, configVars, headerVars, taskVars>>

SpecParse == InitParse /\ [][NextParse]_vars

\* C16: parse_edgerc is total: for every text, values that are one quote
\* character included, it returns Ok with a non-empty map of sections or
\* Err(Config), and never panics.
C16_ParseTotal ==
    sections # Nothing =>
        \/ sections.result.ok /\ DOMAIN sections.result.val # {}
        \/ ~sections.result.ok /\ sections.result.err = "Config"

\* C17: the host of a configuration from_edgerc loads from the file, where
\* validate_config is applied in parse_section_config and once more in
\* from_edgerc, starts with https://, does not end with '/', and
\* validate_config applied to that configuration again returns it unchanged.
C17_HostNormalized ==
    /\ LoadedFromFile
    /\ env.vars = NoMap
    /\ loaded.result.ok
    => /\ StartsWith(loaded.result.val.host, HttpsPrefix)
       /\ ~EndsWith(loaded.result.val.host, <<"/">>)
       /\ validate_config(loaded.result.val) = Ok(loaded.result.val)

\* What a line of the text is: a section header, a key-value pair, or a line
\* that is passed over
LineKind(raw) ==
    LET line == Trim(raw) IN
    IF line = <<>> \/ Head(line) \in {";", "#"} THEN "skip"
    ELSE IF Head(line) = "[" /\ line[Len(line)] = "]" THEN "header"
    ELSE IF Find(line, "=") > 0 THEN "pair"
    ELSE "skip"

\* The name a header line gives
HeaderName(raw) == SubSeq(Trim(raw), 2, Len(Trim(raw)) - 1)

\* The key of a key-value line, as the map of the section holds it
PairKey(raw) ==
    LET key == Trim(Take(Trim(raw), Find(Trim(raw), "=") - 1))
    IN  IF key = <<"m","a","x","-","b","o","d","y">> THEN MaxBodyKey ELSE key

\* The value of a key-value line
PairValue(raw) == parse_value(Trim(Skip(Trim(raw), Find(Trim(raw), "=")))).val

\* The lines of a text as they are read: what each is, and the name, the
\* key and the value it gives
ReadLines(lines) ==
    [i \in DOMAIN lines |->
        [ kind  |-> LineKind(lines[i]),
          name  |-> IF LineKind(lines[i]) = "header" THEN HeaderName(lines[i])
                    ELSE <<>>,
          key   |-> IF LineKind(lines[i]) = "pair" THEN PairKey(lines[i]) ELSE <<>>,
          value |-> IF LineKind(lines[i]) = "pair" THEN PairValue(lines[i])
                    ELSE <<>> ]]

\* The header lines of a text
HeaderLines(read) == {i \in DOMAIN read : read[i].kind = "header"}

\* The key-value lines between the header at line i and the next header
OwnPairs(read, i) ==
    {j \in (i + 1)..Len(read) :
        /\ read[j].kind = "pair"
        /\ \A h \in (i + 1)..(j - 1) : read[h].kind # "header"}

\* The last of the lines js that holds the key
LastWithKey(read, js, key) ==
    CHOOSE j \in js :
        /\ read[j].key = key
        /\ \A l \in js : read[l].key = key => l <= j

\* The configuration made of the key-value lines of the section whose header
\* is line i alone, a repeated key taking its last value
OwnConfig(read, i) ==
    parse_section_config(
        [key \in {read[j].key : j \in OwnPairs(read, i)} |->
            read[LastWithKey(read, OwnPairs(read, i), key)].value])

\* The header lines of the name whose own lines make a valid configuration
ValidHeaders(read, name) ==
    {i \in HeaderLines(read) : read[i].name = name /\ OwnConfig(read, i).ok}

\* The map of sections that holds, for each name with a header whose own
\* lines make a valid configuration, the configuration of the last of them
IsolatedSections(read) ==
    [name \in {read[i].name : i \in {h \in HeaderLines(read) : OwnConfig(read, h).ok}} |->
        OwnConfig(read, CHOOSE i \in ValidHeaders(read, name) :
                            \A h \in ValidHeaders(read, name) : h <= i).val]

\* C18: section isolation in parse_edgerc: the configuration stored for a
\* section is the one made of the key-value lines between a header of that
\* name and the next header alone (the last such header whose lines make a
\* valid configuration), a repeated key taking its last value; key-value
\* lines before the first header and lines of other sections add nothing, so
\* that a section is stored exactly when its own lines make it valid.
C18_SectionIsolation ==
    sections # Nothing /\ sections.result.ok =>
        sections.result.val = IsolatedSections(ReadLines(sections.lines))

\* A text was parsed that has a key-value line before its first header, a
\* section that writes its host twice, and a second section after it; both
\* sections are stored
C18_Witness ==
    /\ sections # Nothing
    /\ sections.result.ok
    /\ LineKind(sections.lines[1]) = "pair"
    /\ Cardinality(DOMAIN sections.result.val) = 2
    /\ \E i \in HeaderLines(ReadLines(sections.lines)) :
          \E j, l \in OwnPairs(ReadLines(sections.lines), i) :
              j < l /\ PairKey(sections.lines[j]) = PairKey(sections.lines[l])

\* C19: the method field and the content hash agree: in the string-to-sign
\* of a request with a body in memory the content-hash field is non-empty
\* exactly when the method field, which is upper-cased, is POST; also for a
\* method spelled in another letter case, such as post.
C19_MethodFieldAndHashAgree ==
    Sending /\ last.call.built /\ last.call.before.body.kind = "bytes" =>
        (SignedFields[6] # <<>> <=> SignedFields[1] = POST)

\* C20: credentials are used toward the configured host only: whatever path
\* is given to EdgeGridClient::request, the request that is built, signed
\* and sent has the scheme and the host of the client's base_url.
C20_SentToBaseHost ==
    Sending /\ last.call.built =>
        /\ last.call.before.url.scheme = client.result.val.base_url.scheme
        /\ last.call.before.url.host = client.result.val.base_url.host
        /\ SignedFields[2] = client.result.val.base_url.scheme
        /\ SignedFields[3] = client.result.val.base_url.host
        /\ last.call.sent =>
              /\ last.call.wire.url.scheme = client.result.val.base_url.scheme
              /\ last.call.wire.url.host = client.result.val.base_url.host

=============================================================================
